---- MODULE Spec2Model ----
(***************************************************************************)
(* Metadata inventory: the fetch / retry / upsert path.                    *)
(*                                                                         *)
(* A flow is one call of MetadataService.store_metadata (a POST) or of     *)
(* MetadataService.background_collect (the task a GET miss schedules).     *)
(* Flows run on one asyncio loop: the code between two awaits is one       *)
(* atomic step, and the awaits (client.get, the backoff sleep, the two     *)
(* find_one_and_update calls) are where flows interleave.                  *)
(*                                                                         *)
(* Time is an integer; datetime.now() returns the wall clock, which never  *)
(* runs backwards here.  A coarse clock (min_tick = 0) may stand still     *)
(* between two reads; a fine clock (min_tick = 1) gives every read a later *)
(* time than the read before.  Backoff waits are counted in half time      *)
(* units (0.5 -> 1).                                                       *)
(***************************************************************************)
EXTENDS Integers, Sequences, FiniteSets, TLC

\* ---------------------------------------------------------------- bounds
MaxClock == 1      \* a coarse clock runs from 0 to MaxClock
MaxFineClock == 4  \* a fine clock runs from 0 to MaxFineClock
MaxRetries == 3    \* largest retry budget of SpecFetch
MaxBudget == 1     \* largest retry budget of the other specifications
MaxDeletes == 1    \* deletions from outside, in SpecRace
MaxBackoffRetries == 6  \* the retry budget of SpecBackoff
MaxDbCalls == 5    \* calls on db, in SpecDatabase
MaxCloses == 3     \* close_http_client calls, in SpecClient

Times == 0..(IF MaxClock >= MaxFineClock THEN MaxClock ELSE MaxFineClock)

\* The scenario: two requests in flight at once, two keys of the collection.
Flows == {1, 2}
Urls == {"https://a.example/", "https://b.example/"}

\* ------------------------------------------------------- program constants
WaitMultiplier == 1
WaitMin == 1
WaitMax == 20

\* -------------------------------------------------------------- the values
None == [none |-> TRUE]

Return(v) == [tag |-> "return", value |-> v]
Raise(e) == [tag |-> "raise", exc |-> e]
Pending == [tag |-> "pending"]

\* What the server of a url may answer: any status is a response.
Responses ==
    { [status_code |-> 200, headers |-> "h200", cookies |-> "c200", text |-> "t200"],
      [status_code |-> 404, headers |-> "h404", cookies |-> "c404", text |-> "t404"] }

\* What awaiting client.get can do: answer, or raise one of httpx's errors.
\* "RequestError" stands for every httpx.RequestError that is neither a
\* TimeoutException nor a ConnectError.
TransportErrors == {"InvalidURL", "TimeoutException", "ConnectError", "RequestError"}

GetOutcomes ==
    { [kind |-> "response", response |-> r] : r \in Responses }
    \cup { [kind |-> "error", error |-> e] : e \in TransportErrors }

MetadataDocument(url, response, created_at, updated_at) ==
    [ url |-> url,
      status_code |-> response.status_code,
      headers |-> response.headers,
      cookies |-> response.cookies,
      page_source |-> response.text,
      created_at |-> created_at,
      updated_at |-> updated_at ]

FetchError(msg) == [type |-> "FetchError", msg |-> msg]
RetryError(last) == [type |-> "RetryError", last_attempt |-> last]
RuntimeError(msg) == [type |-> "RuntimeError", msg |-> msg]
PyMongoError == [type |-> "PyMongoError"]

VARIABLES
    clock,          \* the wall clock
    min_tick,       \* the least the clock moves between two reads
    settings,       \* app.core.config.settings
    http_client,    \* app.workers.fetcher._http_client: None or a reference
    clients,        \* the AsyncClient objects constructed so far: is_closed of each
    closing,        \* the clients whose aclose() a close_http_client call awaits
    client_calls,   \* the get_http_client and close_http_client calls, in order
    db_client,      \* app.core.database.db._client: None or a reference
    connecting,     \* a db.connect() awaits its ping
    db_calls,       \* the calls on db and how they ended, in order
    store,          \* the documents of the metadata collection
    next_id,        \* the next _id the store hands out
    deleted,        \* how many documents were deleted from outside
    first_created,  \* per url, the created_at its first insert wrote (-1: none yet)
    pc,             \* where each flow is suspended
    entry,          \* the operation the flow entered by
    url,            \* its url argument
    attempt_number, \* tenacity's retry_state.attempt_number
    fetch_now,      \* `now` of the running _do_fetch
    sleeps,         \* the backoff waits of the running fetch_metadata, in order
    last_get,       \* what the last client.get of the flow did
    fetched,        \* what fetch_metadata gave store_metadata
    calls,          \* the calls store_metadata made, in order
    payload,        \* upsert's `payload`
    document,       \* upsert's `document` argument
    store_ops,      \* the store operations upsert awaited, in order
    upserted,       \* what upsert gave store_metadata
    stored,         \* what store_metadata gave its caller
    outcome,        \* what the flow's entry operation gave its caller
    request,        \* the HTTP request the flow serves (None: called directly)
    found,          \* what service.get_metadata gave the GET route
    background_tasks, \* the tasks the route added to BackgroundTasks, in order
    response,       \* the HTTP response to the flow's request
    budget_at_start \* settings.http_max_retries when the flow's fetch_metadata began

vars == << clock, min_tick, settings, http_client, clients, closing,
           client_calls, db_client, connecting, db_calls, store, next_id, deleted,
           first_created, pc, entry, url, attempt_number, fetch_now, sleeps,
           last_get, fetched, calls, payload, document, store_ops, upserted,
           stored, outcome, request, found, background_tasks, response,
           budget_at_start >>

routeVars == << request, found, background_tasks, response >>

flowVars == << pc, entry, url, attempt_number, fetch_now, sleeps, last_get,
               fetched, calls, payload, document, store_ops, upserted,
               stored, outcome, request, found, background_tasks,
               response, budget_at_start >>

Max(a, b) == IF a >= b THEN a ELSE b
Min(a, b) == IF a <= b THEN a ELSE b

\* ----------------------------------------------------------- the database

\* AsyncIOMotorClient(settings.mongo_uri, ...): the n-th client constructed.
AsyncIOMotorClient(n) == [id |-> n]

\* self._client[settings.mongo_db][name]
Collection(client, name) ==
    [client |-> client, database |-> "settings.mongo_db", name |-> name]

\* DatabaseManager.get_collection with _client = client.
get_collection(client, name) ==
    IF client = None
    THEN Raise(RuntimeError("DatabaseManager is not connected. Call connect() first."))
    ELSE Return(Collection(client, name))

\* ------------------------------------------------------------ the fetcher

\* httpx.AsyncClient(...): the objects, one more constructed, open.
AsyncClient(heap) == Append(heap, FALSE)

\* client.is_closed
is_closed(client, heap) == heap[client.id]

\* get_http_client constructing a client on every call.
get_http_client_always_new(client, heap) == [id |-> Len(heap) + 1]

\* get_http_client: the client it returns, which is the module's client after
\* the call; a reference past the last object is a client it constructs.
get_http_client(client, heap) ==
    IF client = None \/ is_closed(client, heap)
    THEN [id |-> Len(heap) + 1]
    ELSE client

\* The condition of close_http_client: there is a client and it is open.
close_http_client_condition(client, heap) ==
    client # None /\ ~is_closed(client, heap)

\* _do_fetch with response.raise_for_status() after the get.
do_fetch_raise_for_status(u, now, got) ==
    IF got.kind = "response" /\ got.response.status_code < 400
    THEN Return(MetadataDocument(u, got.response, now, now))
    ELSE Raise(FetchError([text |-> "Request error", url |-> u, cause |-> got.kind]))

\* _do_fetch after `await client.get(url)`: the candidate, or what it raises.
do_fetch(u, now, got) ==
    IF got.kind = "response"
    THEN Return(MetadataDocument(u, got.response, now, now))
    ELSE IF got.error = "InvalidURL"
    THEN Raise(FetchError([text |-> "Invalid URL", url |-> u, cause |-> got.error]))
    ELSE IF got.error = "TimeoutException"
    THEN Raise([type |-> "TimeoutException"])
    ELSE IF got.error = "ConnectError"
    THEN Raise([type |-> "ConnectError"])
    ELSE Raise(FetchError([text |-> "Request error", url |-> u, cause |-> got.error]))

\* tenacity's default: retry on every exception.
retry_if_any_exception(exc) == TRUE

\* A budget of R read as R + 2 attempts.
stop_one_late(n, s) == n >= s.http_max_retries + 2

\* A budget of R read as R attempts.
stop_one_early(n, s) == n >= s.http_max_retries

\* The decorator's arguments.
retry_if_exception_type(exc) == exc.type \in {"TimeoutException", "ConnectError"}

stop(n, s) == n >= s.http_max_retries + 1

\* wait_exponential without max=10.
wait_exponential_uncapped(n) ==
    Max(Max(0, WaitMin), WaitMultiplier * (2 ^ (n - 1)))

wait_exponential(n) ==
    Max(Max(0, WaitMin), Min(WaitMultiplier * (2 ^ (n - 1)), WaitMax))

\* A loop that looks at the stop condition before it looks at the result: the
\* last attempt allowed ends the call with RetryError even if it succeeded.
fetch_with_retry_stop_first(res, n, s) ==
    IF stop(n, s) /\ n > 1 THEN Raise(RetryError([type |-> "TimeoutException"]))
    ELSE IF res.tag = "return" THEN res
    ELSE IF ~retry_if_exception_type(res.exc) THEN res
    ELSE IF stop(n, s) THEN Raise(RetryError(res.exc))
    ELSE [tag |-> "sleep", wait |-> wait_exponential(n)]

\* The loop with reraise=True: at the stop the last error itself is raised.
fetch_with_retry_reraise(res, n, s) ==
    IF res.tag = "return" THEN res
    ELSE IF ~retry_if_exception_type(res.exc) THEN res
    ELSE IF stop(n, s) THEN res
    ELSE [tag |-> "sleep", wait |-> wait_exponential(n)]

\* One turn of tenacity's loop around _fetch_with_retry (reraise=False), given
\* the result of attempt n: return it, raise, or sleep before attempt n + 1.
fetch_with_retry(res, n, s) ==
    IF res.tag = "return" THEN res
    ELSE IF ~retry_if_exception_type(res.exc) THEN res
    ELSE IF stop(n, s) THEN Raise(RetryError(res.exc))
    ELSE [tag |-> "sleep", wait |-> wait_exponential(n)]

\* fetch_metadata, given how _fetch_with_retry ended.
fetch_metadata(res, u, s) ==
    IF res.tag = "raise" /\ res.exc.type = "RetryError"
    THEN Raise(FetchError([text |-> "Failed to fetch", url |-> u,
                           attempts |-> s.http_max_retries + 1,
                           cause |-> res.exc.last_attempt.type]))
    ELSE res

\* --------------------------------------------------------- the repository

\* ensure_indexes never run, or the index created without unique=True.
NoUniqueIndexes == {}

\* ensure_indexes: the unique indexes of the collection, created at startup.
UniqueIndexes == {"url"}

\* pydantic's model_dump(exclude=...)
model_dump(doc, exclude) == [f \in (DOMAIN doc) \ exclude |-> doc[f]]

\* model_dump() without the exclude: created_at goes into the $set.
upsert_payload_with_created_at(doc, now) == [doc EXCEPT !.updated_at = now]

\* A payload that leaves the headers out of the $set.
upsert_payload_without_headers(doc, now) ==
    [model_dump(doc, {"created_at", "headers"}) EXCEPT !.updated_at = now]

\* upsert without `payload["updated_at"] = now`: the candidate's stays.
upsert_payload_candidate_time(doc, now) == model_dump(doc, {"created_at"})

\* upsert's payload: every field but created_at, updated_at overwritten by
\* the `now` upsert read.
upsert_payload(doc, now) ==
    [model_dump(doc, {"created_at"}) EXCEPT !.updated_at = now]

\* An empty filter: it matches every document of the collection.
MatchingAny(docs, u) == docs

\* The documents a filter {"url": u} matches.
Matching(docs, u) == { d \in docs : d.url = u }

\* A $set that the store applies only if it does not take updated_at back.
ApplySetIfNewer(d, fields) ==
    IF /\ "updated_at" \in DOMAIN d
       /\ "updated_at" \in DOMAIN fields
       /\ fields.updated_at < d.updated_at
    THEN d
    ELSE [f \in (DOMAIN d) \cup (DOMAIN fields) |->
             IF f \in DOMAIN fields THEN fields[f] ELSE d[f]]

\* A $set (or $setOnInsert) applied to a document.
ApplySet(d, fields) ==
    [f \in (DOMAIN d) \cup (DOMAIN fields) |->
        IF f \in DOMAIN fields THEN fields[f] ELSE d[f]]

\* The document an upsert inserts: the filter's equality, $set, $setOnInsert.
InsertedDoc(id, doc, set) ==
    ApplySet(ApplySet([_id |-> id, url |-> doc.url], set),
             [created_at |-> doc.created_at])

\* The unique index refuses a document that repeats an indexed value.
DuplicateKey(docs, new) ==
    \E f \in UniqueIndexes : \E d \in docs : d[f] = new[f]

\* updated.pop("_id"); MetadataDocument(**updated)
FromStore(d) == model_dump(d, {"_id"})

\* The second find_one_and_update given upsert=True as well.
retry_with_upsert == TRUE

\* The `upsert` argument of the second find_one_and_update: not given.
retry_upsert == FALSE

\* `except PyMongoError` placed first: it takes the DuplicateKeyError too.
upsert_except_wraps_all(err) == "wrap"

\* Which except clause of upsert takes an error of the first operation.
\* DuplicateKeyError is a PyMongoError: the order of the clauses decides.
upsert_except(err) ==
    IF err = "DuplicateKeyError" THEN "retry_update" ELSE "wrap"

\* ------------------------------------------------------------ the service

\* store_metadata returning its candidate instead of what upsert returned.
store_metadata_returns_candidate(f, u) == f

\* store_metadata, given how fetch_metadata ended and, if it returned, how
\* upsert ended.
store_metadata(f, u) == IF f.tag = "raise" THEN f ELSE u

\* background_collect with its first except clause only.
catches_fetch_error_only(exc) == exc.type = "FetchError"

\* background_collect's two except clauses: FetchError, then Exception.  Every
\* error of this model derives from Exception.
background_collect_catches(exc) ==
    exc.type = "FetchError"
    \/ exc.type \in {"RuntimeError", "PyMongoError", "RetryError",
                     "TimeoutException", "ConnectError"}

\* background_collect, given how store_metadata ended.
background_collect(res) ==
    IF res.tag = "raise" /\ ~background_collect_catches(res.exc) THEN res
    ELSE Return(None)

\* ------------------------------------------------------------- the routes

\* The url texts a client may send.
RawUrls == {"https://a.example", "https://a.example/", "https://b.example/",
            "not-a-url"}

\* pydantic refuses what is no http(s) url.
ValidationError(raw) == raw = "not-a-url"

\* str(HttpUrl(raw)), for what pydantic accepts: a url without a path gets
\* the path "/".
HttpUrl(raw) ==
    IF raw = "https://a.example" THEN "https://a.example/" ELSE raw

\* The url of the body used as it was sent.
post_url_verbatim(raw) == raw

\* post_metadata's `url = str(request.url)`, request.url being an HttpUrl.
post_url(raw) == HttpUrl(raw)

\* get_metadata's `normalised_url = str(HttpUrl(url))`.
get_url(raw) == HttpUrl(raw)

HTTPException(status_code, detail) ==
    [status_code |-> status_code, content |-> [detail |-> detail]]

AcceptedResponse(status_code, message, u) ==
    [status_code |-> status_code, content |-> [message |-> message, url |-> u]]

\* The document returned as it is.
MetadataResponseWithBody(doc) == doc

\* MetadataResponse(**doc.model_dump(exclude={"page_source"}))
MetadataResponse(doc) == model_dump(doc, {"page_source"})

\* A lookup that reports every url as absent.
find_by_url_absent(result) == None

\* find_by_url, given what find_one gave: None, or the document without _id.
find_by_url(result) == IF result = None THEN None ELSE FromStore(result)

\* post_metadata with `except Exception` as its first clause.
post_metadata_except_first(u, res) ==
    IF res.tag = "return" THEN AcceptedResponse(200, "Metadata stored", u)
    ELSE HTTPException(500, res.exc)

\* post_metadata, given how store_metadata(u) ended.
post_metadata(u, res) ==
    IF res.tag = "return" THEN AcceptedResponse(200, "Metadata stored", u)
    ELSE IF res.exc.type = "FetchError" THEN HTTPException(400, res.exc)
    ELSE HTTPException(500, res.exc)

\* get_metadata (the route) from `await service.get_metadata(u)` on.
get_metadata(u, res) ==
    IF res.tag = "raise" THEN HTTPException(500, res.exc)
    ELSE IF res.value = None THEN AcceptedResponse(202, "No metadata yet", u)
    ELSE [status_code |-> 200, content |-> MetadataResponse(res.value)]

\* A handler that adds the task whatever the lookup returned.
add_task_always(u, res) ==
    IF res.tag = "return"
    THEN << [func |-> "background_collect", arg |-> u] >> ELSE << >>

\* The tasks get_metadata (the route) adds: background_collect(u) on a miss.
add_task(u, res) ==
    IF res.tag = "return" /\ res.value = None
    THEN << [func |-> "background_collect", arg |-> u] >> ELSE << >>

\* store_metadata ends, and the flow's entry operation with it; a POST is
\* answered in the same step.
Finish(p, f, u) ==
    LET res == store_metadata(f, u)
    IN /\ stored' = [stored EXCEPT ![p] = res]
       /\ outcome' = [outcome EXCEPT ![p] =
                        IF entry[p] = "background_collect"
                        THEN background_collect(res) ELSE res]
       /\ pc' = [pc EXCEPT ![p] = "done"]
       /\ response' = [response EXCEPT ![p] =
                         IF request[p] # None /\ request[p].method = "POST"
                         THEN post_metadata(url[p], res) ELSE @]

\* datetime.now(timezone.utc): the clock has moved on since the last read,
\* or, if coarse, has stood still.  Only the order of the times read matters,
\* so it moves one step at a time.
Now(t) ==
    /\ t \in (clock + min_tick)..(clock + 1)
    /\ t <= (IF min_tick = 0 THEN MaxClock ELSE MaxFineClock)
    /\ clock' = t
    /\ UNCHANGED min_tick

\* ---------------------------------------------------------------- Init
EntryPoints == {"store_metadata", "background_collect"}

\* DatabaseManager() as the module creates it: no client.
Constructed ==
    /\ db_client = None
    /\ connecting = FALSE
    /\ db_calls = << >>

\* After lifespan's `await db.connect()` has returned.
Started ==
    /\ db_client = AsyncIOMotorClient(1)
    /\ connecting = FALSE
    /\ db_calls = << [op |-> "connect"], [op |-> "ping", ok |-> TRUE] >>

\* Everything but db.
InitState(budgets, tick) ==
    /\ clock = 0
    /\ min_tick = tick
    /\ settings \in { [http_max_retries |-> r] : r \in budgets }
    /\ http_client = None
    /\ clients = << >>
    /\ closing = {}
    /\ client_calls = << >>
    /\ store = {}
    /\ next_id = 1
    /\ deleted = 0
    /\ first_created = [u \in Urls |-> -1]
    /\ pc = [p \in Flows |-> "idle"]
    /\ entry = [p \in Flows |-> "store_metadata"]
    /\ url = [p \in Flows |-> "https://a.example/"]
    /\ attempt_number = [p \in Flows |-> 0]
    /\ fetch_now = [p \in Flows |-> 0]
    /\ sleeps = [p \in Flows |-> << >>]
    /\ last_get = [p \in Flows |-> None]
    /\ fetched = [p \in Flows |-> Pending]
    /\ calls = [p \in Flows |-> << >>]
    /\ payload = [p \in Flows |-> None]
    /\ document = [p \in Flows |-> None]
    /\ store_ops = [p \in Flows |-> << >>]
    /\ upserted = [p \in Flows |-> Pending]
    /\ stored = [p \in Flows |-> Pending]
    /\ outcome = [p \in Flows |-> Pending]
    /\ request = [p \in Flows |-> None]
    /\ found = [p \in Flows |-> Pending]
    /\ background_tasks = [p \in Flows |-> << >>]
    /\ response = [p \in Flows |-> Pending]
    /\ budget_at_start = [p \in Flows |-> 0]

InitWith(budgets, tick) == InitState(budgets, tick) /\ Started

\* After startup (lifespan): connected, the unique index created, no request
\* served yet, the collection empty.
Init == InitWith(0..MaxBudget, 0)

InitFine == InitWith(0..MaxBudget, 1)

InitFetch == InitWith(0..MaxRetries, 0)

\* A budget large enough for the backoff to reach its cap.
InitBackoff == InitWith({MaxBackoffRetries}, 0)

\* The routes are checked with one retry allowed.
InitRoutes == InitWith({1}, 0)

\* -------------------------------------------------------------- the steps

\* The start of one _do_fetch, up to `await client.get(url)`.
StartAttempt(p, n) ==
    /\ LET client == get_http_client(http_client, clients)
       IN /\ http_client' = client
          /\ clients' = IF client.id > Len(clients) THEN AsyncClient(clients)
                                                   ELSE clients
          /\ client_calls' = Append(client_calls,
                                    [op |-> "get_http_client", client |-> client])
    /\ closing' = closing
    /\ UNCHANGED << db_client, connecting, db_calls >>
    /\ \E t \in Times : Now(t) /\ fetch_now' = [fetch_now EXCEPT ![p] = t]
    /\ attempt_number' = [attempt_number EXCEPT ![p] = n]
    /\ pc' = [pc EXCEPT ![p] = "get"]

\* store_metadata(u) or background_collect(u) is entered and runs to the
\* first client.get.
Enter(p, e, u) ==
    /\ entry' = [entry EXCEPT ![p] = e]
    /\ url' = [url EXCEPT ![p] = u]
    /\ calls' = [calls EXCEPT ![p] = << [op |-> "fetch_metadata", arg |-> u] >>]
    /\ sleeps' = [sleeps EXCEPT ![p] = << >>]
    /\ last_get' = [last_get EXCEPT ![p] = None]
    /\ fetched' = [fetched EXCEPT ![p] = Pending]
    /\ payload' = [payload EXCEPT ![p] = None]
    /\ document' = [document EXCEPT ![p] = None]
    /\ store_ops' = [store_ops EXCEPT ![p] = << >>]
    /\ upserted' = [upserted EXCEPT ![p] = Pending]
    /\ stored' = [stored EXCEPT ![p] = Pending]
    /\ outcome' = [outcome EXCEPT ![p] = Pending]
    /\ budget_at_start' =
          [budget_at_start EXCEPT ![p] = settings.http_max_retries]
    /\ StartAttempt(p, 1)
    /\ UNCHANGED << settings, store, next_id, deleted, first_created >>

\* A request arrives: a POST calls store_metadata, the task of a GET miss
\* calls background_collect.
Call(p, e, u) ==
    /\ pc[p] = "idle"
    /\ Enter(p, e, u)
    /\ UNCHANGED routeVars

\* client.get fails transiently and the budget allows another attempt: the
\* flow sleeps.
FetchSleeps(p, got) ==
    /\ pc[p] = "get"
    /\ LET res == do_fetch(url[p], fetch_now[p], got)
           turn == fetch_with_retry(res, attempt_number[p], settings)
       IN /\ turn.tag = "sleep"
          /\ sleeps' = [sleeps EXCEPT ![p] = Append(@, turn.wait)]
    /\ last_get' = [last_get EXCEPT ![p] = got]
    /\ pc' = [pc EXCEPT ![p] = "sleep"]
    /\ UNCHANGED << clock, min_tick, settings, http_client, clients, closing, client_calls, db_client, connecting, db_calls, store, next_id,
                    deleted, first_created, entry, url, attempt_number,
                    fetch_now, fetched, calls, payload, document, store_ops,
                    upserted, stored, outcome, request, found,
                    background_tasks, response, budget_at_start >>

\* The sleep ends: the next attempt starts.
Wake(p) ==
    /\ pc[p] = "sleep"
    /\ StartAttempt(p, attempt_number[p] + 1)
    /\ UNCHANGED << settings, store, next_id, deleted, first_created, entry,
                    url, sleeps, last_get, fetched, calls, payload, document,
                    store_ops, upserted, stored, outcome, request, found,
                    background_tasks, response, budget_at_start >>

\* client.get fails for good, or transiently with the budget used up:
\* fetch_metadata raises, and store_metadata with it.
FetchFails(p, got) ==
    /\ pc[p] = "get"
    /\ LET res == do_fetch(url[p], fetch_now[p], got)
           turn == fetch_with_retry(res, attempt_number[p], settings)
           end == fetch_metadata(turn, url[p], settings)
       IN /\ turn.tag = "raise"
          /\ fetched' = [fetched EXCEPT ![p] = end]
          /\ Finish(p, end, Pending)
    /\ last_get' = [last_get EXCEPT ![p] = got]
    /\ UNCHANGED << clock, min_tick, settings, http_client, clients, closing, client_calls, db_client, connecting, db_calls, store, next_id,
                    deleted, first_created, entry, url, attempt_number,
                    fetch_now, sleeps, calls, payload, document, store_ops,
                    upserted, request, found, background_tasks,
                    budget_at_start >>

\* client.get answers: fetch_metadata returns the candidate and store_metadata
\* enters upsert, which reads the clock, builds its payload and awaits the
\* first find_one_and_update.
FetchSucceeds(p, got) ==
    /\ pc[p] = "get"
    /\ LET res == do_fetch(url[p], fetch_now[p], got)
           turn == fetch_with_retry(res, attempt_number[p], settings)
           end == fetch_metadata(turn, url[p], settings)
       IN /\ turn.tag = "return"
          /\ fetched' = [fetched EXCEPT ![p] = end]
          /\ calls' = [calls EXCEPT ![p] =
                         Append(@, [op |-> "upsert", arg |-> end.value])]
          /\ document' = [document EXCEPT ![p] = end.value]
          /\ \E t \in Times :
                /\ Now(t)
                /\ payload' = [payload EXCEPT ![p] = upsert_payload(end.value, t)]
    /\ last_get' = [last_get EXCEPT ![p] = got]
    /\ store_ops' = [store_ops EXCEPT ![p] = << "upsert" >>]
    /\ pc' = [pc EXCEPT ![p] = "find_one_and_update"]
    /\ UNCHANGED << settings, http_client, clients, closing, client_calls, db_client, connecting, db_calls, store, next_id, deleted,
                    first_created, entry, url, attempt_number, fetch_now,
                    sleeps, upserted, stored, outcome, request, found,
                    background_tasks, response, budget_at_start >>

\* upsert returns the document the store gave back.
UpsertReturns(p, d) ==
    /\ upserted' = [upserted EXCEPT ![p] = Return(FromStore(d))]
    /\ Finish(p, fetched[p], Return(FromStore(d)))

\* upsert raises.
UpsertRaises(p, e) ==
    /\ upserted' = [upserted EXCEPT ![p] = Raise(e)]
    /\ Finish(p, fetched[p], Raise(e))

\* The first find_one_and_update finds the url's document and updates it.
UpsertUpdates(p) ==
    /\ pc[p] = "find_one_and_update"
    /\ \E d \in Matching(store, document[p].url) :
          LET after == ApplySet(d, payload[p])
          IN /\ store' = (store \ {d}) \cup {after}
             /\ UpsertReturns(p, after)
    /\ UNCHANGED << clock, min_tick, settings, http_client, clients, closing, client_calls, db_client, connecting, db_calls, next_id, deleted,
                    first_created, entry, url, attempt_number, fetch_now,
                    sleeps, last_get, fetched, calls, payload, document,
                    store_ops, request, found, background_tasks,
                    budget_at_start >>

\* The first find_one_and_update finds no document: with upsert=True the
\* store goes on to insert one.
UpsertFindsNone(p) ==
    /\ pc[p] = "find_one_and_update"
    /\ Matching(store, document[p].url) = {}
    /\ pc' = [pc EXCEPT ![p] = "insert"]
    /\ UNCHANGED << clock, min_tick, settings, http_client, clients, closing, client_calls, db_client, connecting, db_calls, store, next_id,
                    deleted, first_created, entry, url, attempt_number,
                    fetch_now, sleeps, last_get, fetched, calls, payload,
                    document, store_ops, upserted, stored, outcome, request,
                    found, background_tasks, response, budget_at_start >>

\* The insert of the first find_one_and_update goes through.
UpsertInserts(p) ==
    /\ pc[p] = "insert"
    /\ LET new == InsertedDoc(next_id, document[p], payload[p])
       IN /\ ~DuplicateKey(store, new)
          /\ store' = store \cup {new}
          /\ UpsertReturns(p, new)
    /\ next_id' = next_id + 1
    /\ first_created' =
          [first_created EXCEPT ![document[p].url] =
              IF @ = -1 THEN document[p].created_at ELSE @]
    /\ UNCHANGED << clock, min_tick, settings, http_client, clients, closing, client_calls, db_client, connecting, db_calls, deleted, entry,
                    url, attempt_number, fetch_now, sleeps, last_get, fetched,
                    calls, payload, document, store_ops, request, found,
                    background_tasks, budget_at_start >>

\* The insert meets a document another writer inserted meanwhile: the store
\* raises DuplicateKeyError, and upsert awaits the second find_one_and_update.
UpsertDuplicateKey(p) ==
    /\ pc[p] = "insert"
    /\ DuplicateKey(store, InsertedDoc(next_id, document[p], payload[p]))
    /\ IF upsert_except("DuplicateKeyError") = "retry_update"
       THEN /\ pc' = [pc EXCEPT ![p] = "retry_update"]
            /\ store_ops' = [store_ops EXCEPT ![p] = Append(@, "update")]
            /\ UNCHANGED << upserted, stored, outcome, response >>
       ELSE /\ UpsertRaises(p, RuntimeError("Database write error"))
            /\ UNCHANGED store_ops
    /\ UNCHANGED << clock, min_tick, settings, http_client, clients, closing, client_calls, db_client, connecting, db_calls, store, next_id,
                    deleted, first_created, entry, url, attempt_number,
                    fetch_now, sleeps, last_get, fetched, calls, payload,
                    document, request, found, background_tasks,
                    budget_at_start >>

\* The second find_one_and_update (no upsert) finds the document.
RetryUpdates(p) ==
    /\ pc[p] = "retry_update"
    /\ \E d \in Matching(store, document[p].url) :
          LET after == ApplySet(d, payload[p])
          IN /\ store' = (store \ {d}) \cup {after}
             /\ UpsertReturns(p, after)
    /\ UNCHANGED << clock, min_tick, settings, http_client, clients, closing, client_calls, db_client, connecting, db_calls, next_id, deleted,
                    first_created, entry, url, attempt_number, fetch_now,
                    sleeps, last_get, fetched, calls, payload, document,
                    store_ops, request, found, background_tasks,
                    budget_at_start >>

\* The second find_one_and_update finds nothing: `updated is None`.
RetryFindsNone(p) ==
    /\ pc[p] = "retry_update"
    /\ Matching(store, document[p].url) = {}
    /\ IF retry_upsert
       THEN LET new == InsertedDoc(next_id, document[p], payload[p])
            IN /\ store' = store \cup {new}
               /\ next_id' = next_id + 1
               /\ UpsertReturns(p, new)
       ELSE /\ UpsertRaises(p, RuntimeError("Upsert race condition unresolved"))
            /\ UNCHANGED << store, next_id >>
    /\ UNCHANGED << clock, min_tick, settings, http_client, clients, closing, client_calls, db_client, connecting, db_calls, deleted,
                    first_created, entry, url, attempt_number, fetch_now,
                    sleeps, last_get, fetched, calls, payload, document,
                    store_ops, request, found, background_tasks,
                    budget_at_start >>

\* The first find_one_and_update fails with another PyMongoError, nothing
\* written: `except PyMongoError` wraps it.
StoreError(p) ==
    /\ pc[p] \in {"find_one_and_update", "insert"}
    /\ IF upsert_except("PyMongoError") = "wrap"
       THEN UpsertRaises(p, RuntimeError("Database write error"))
       ELSE UpsertRaises(p, PyMongoError)
    /\ UNCHANGED << clock, min_tick, settings, http_client, clients, closing, client_calls, db_client, connecting, db_calls, store, next_id,
                    deleted, first_created, entry, url, attempt_number,
                    fetch_now, sleeps, last_get, fetched, calls, payload,
                    document, store_ops, request, found, background_tasks,
                    budget_at_start >>

\* The second find_one_and_update fails with a PyMongoError.  It runs inside
\* the `except DuplicateKeyError` clause, where the sibling clause
\* `except PyMongoError` does not apply: the error leaves upsert as it is.
RetryStoreError(p) ==
    /\ pc[p] = "retry_update"
    /\ UpsertRaises(p, PyMongoError)
    /\ UNCHANGED << clock, min_tick, settings, http_client, clients, closing, client_calls, db_client, connecting, db_calls, store, next_id,
                    deleted, first_created, entry, url, attempt_number,
                    fetch_now, sleeps, last_get, fetched, calls, payload,
                    document, store_ops, request, found, background_tasks,
                    budget_at_start >>

\* A find_one_and_update is applied by the store, whole, and the driver then
\* fails (the reply is lost): the write is there and upsert raises, the first
\* operation through `except PyMongoError`, the second as it is.
StoreErrorAfterWrite(p) ==
    /\ \/ /\ pc[p] \in {"find_one_and_update", "retry_update"}
          /\ \E d \in Matching(store, document[p].url) :
                store' = (store \ {d}) \cup {ApplySet(d, payload[p])}
          /\ UNCHANGED << next_id, first_created >>
       \/ /\ pc[p] = "insert"
          /\ LET new == InsertedDoc(next_id, document[p], payload[p])
             IN /\ ~DuplicateKey(store, new)
                /\ store' = store \cup {new}
          /\ next_id' = next_id + 1
          /\ first_created' =
                [first_created EXCEPT ![document[p].url] =
                    IF @ = -1 THEN document[p].created_at ELSE @]
    /\ IF pc[p] = "retry_update"
       THEN UpsertRaises(p, PyMongoError)
       ELSE UpsertRaises(p, RuntimeError("Database write error"))
    /\ UNCHANGED << clock, min_tick, settings, http_client, clients, closing, client_calls, db_client, connecting, db_calls, deleted, entry,
                    url, attempt_number, fetch_now, sleeps, last_get,
                    fetched, calls, payload, document, store_ops, request,
                    found, background_tasks, budget_at_start >>

\* Something outside this program deletes a document of the collection.
ExternalDelete(d) ==
    /\ d \in store
    /\ deleted < MaxDeletes
    /\ store' = store \ {d}
    /\ deleted' = deleted + 1
    /\ UNCHANGED << clock, min_tick, settings, http_client, clients, closing, client_calls, db_client, connecting, db_calls, next_id,
                    first_created, flowVars >>

\* A POST /metadata arrives.  FastAPI validates the body: what is no url is
\* answered 422 before the handler runs; otherwise post_metadata calls
\* store_metadata with the normalised url.
PostRequest(p, raw) ==
    /\ pc[p] = "idle"
    /\ request' = [request EXCEPT ![p] = [method |-> "POST", url |-> raw]]
    /\ IF ValidationError(raw)
       THEN /\ response' = [response EXCEPT ![p] =
                               HTTPException(422, "Invalid URL")]
            /\ pc' = [pc EXCEPT ![p] = "responded"]
            /\ UNCHANGED << clock, min_tick, settings, http_client, clients, closing, client_calls, db_client, connecting, db_calls, store,
                            next_id, deleted, first_created, entry, url,
                            attempt_number, fetch_now, sleeps, last_get,
                            fetched, calls, payload, document, store_ops,
                            upserted, stored, outcome, budget_at_start >>
       ELSE /\ Enter(p, "store_metadata", post_url(raw))
            /\ UNCHANGED response
    /\ UNCHANGED << found, background_tasks >>

\* A GET /metadata arrives: 422 for what is no url, otherwise the handler
\* awaits service.get_metadata(normalised_url).
GetRequest(p, raw) ==
    /\ pc[p] = "idle"
    /\ request' = [request EXCEPT ![p] = [method |-> "GET", url |-> raw]]
    /\ IF ValidationError(raw)
       THEN /\ response' = [response EXCEPT ![p] =
                               HTTPException(422, "Invalid URL")]
            /\ pc' = [pc EXCEPT ![p] = "responded"]
            /\ UNCHANGED << entry, url >>
       ELSE /\ entry' = [entry EXCEPT ![p] = "get_metadata"]
            /\ url' = [url EXCEPT ![p] = get_url(raw)]
            /\ pc' = [pc EXCEPT ![p] = "find_one"]
            /\ UNCHANGED response
    /\ UNCHANGED << clock, min_tick, settings, http_client, clients, closing, client_calls, db_client, connecting, db_calls, store, next_id,
                    deleted, first_created, attempt_number, fetch_now, sleeps,
                    last_get, fetched, calls, payload, document, store_ops,
                    upserted, stored, outcome, found, background_tasks,
                    budget_at_start >>

\* The rest of the GET handler, given what find_one gave (a document, None, or
\* an error): the answer, and on a miss the background task.
GetAnswers(p, res) ==
    /\ found' = [found EXCEPT ![p] = res]
    /\ response' = [response EXCEPT ![p] = get_metadata(url[p], res)]
    /\ background_tasks' =
          [background_tasks EXCEPT ![p] = @ \o add_task(url[p], res)]
    /\ pc' = [pc EXCEPT ![p] =
                 IF add_task(url[p], res) # << >> THEN "scheduled"
                 ELSE "responded"]
    /\ UNCHANGED << clock, min_tick, settings, http_client, clients, closing, client_calls, db_client, connecting, db_calls, store, next_id,
                    deleted, first_created, entry, url, attempt_number,
                    fetch_now, sleeps, last_get, fetched, calls, payload,
                    document, store_ops, upserted, stored, outcome, request,
                    budget_at_start >>

\* find_one answers the GET handler.
GetFinds(p) ==
    /\ pc[p] = "find_one"
    /\ \/ \E d \in Matching(store, url[p]) : GetAnswers(p, Return(find_by_url(d)))
       \/ /\ Matching(store, url[p]) = {}
          /\ GetAnswers(p, Return(find_by_url(None)))

\* find_one fails.
GetStoreError(p) ==
    /\ pc[p] = "find_one"
    /\ GetAnswers(p, Raise(PyMongoError))

\* The 202 is sent; the task the handler added runs background_collect.
RunBackgroundTask(p) ==
    /\ pc[p] = "scheduled"
    /\ Enter(p, background_tasks[p][1].func, background_tasks[p][1].arg)
    /\ UNCHANGED routeVars

\* settings.http_max_retries is assigned another value while the process runs.
SetBudget(r) ==
    /\ r # settings.http_max_retries
    /\ settings' = [settings EXCEPT !.http_max_retries = r]
    /\ UNCHANGED << clock, min_tick, http_client, clients, closing, client_calls, db_client, connecting, db_calls, store, next_id, deleted,
                    first_created, flowVars >>

\* close_http_client up to `await _http_client.aclose()`. aclose marks the
\* client closed before it awaits the transport's close. With no client, or a
\* closed one, the call returns at once.
CloseHttpClient ==
    /\ Cardinality({ i \in DOMAIN client_calls :
                        client_calls[i].op = "close_http_client" }) < MaxCloses
    /\ client_calls' = Append(client_calls, [op |-> "close_http_client"])
    /\ IF close_http_client_condition(http_client, clients)
       THEN /\ clients' = [clients EXCEPT ![http_client.id] = TRUE]
            /\ closing' = closing \cup {http_client}
       ELSE UNCHANGED << clients, closing >>
    /\ UNCHANGED << db_client, connecting, db_calls, clock, min_tick, settings, http_client, store, next_id,
                    deleted, first_created, flowVars >>

\* aclose() has returned: close_http_client clears the module's reference.
CloseResumes ==
    /\ \E client \in closing : closing' = closing \ {client}
    /\ http_client' = None
    /\ client_calls' = Append(client_calls, [op |-> "_http_client = None"])
    /\ UNCHANGED << db_client, connecting, db_calls, clock, min_tick, settings, clients, store, next_id,
                    deleted, first_created, flowVars >>

\* How many connect calls db_calls holds.
Connects(log) == Cardinality({ i \in DOMAIN log : log[i].op = "connect" })

\* db.connect() up to `await self._client.admin.command("ping")`: the client is
\* constructed and assigned before the ping.
Connect ==
    /\ ~connecting
    /\ Len(db_calls) < MaxDbCalls
    /\ db_client' = AsyncIOMotorClient(Connects(db_calls) + 1)
    /\ connecting' = TRUE
    /\ db_calls' = Append(db_calls, [op |-> "connect"])
    /\ UNCHANGED << clock, min_tick, settings, http_client, clients, closing,
                    client_calls, store, next_id, deleted, first_created,
                    flowVars >>

\* The ping is answered: connect logs and returns.
PingReturns ==
    /\ connecting
    /\ connecting' = FALSE
    /\ db_calls' = Append(db_calls, [op |-> "ping", ok |-> TRUE])
    /\ UNCHANGED << clock, min_tick, settings, http_client, clients, closing,
                    client_calls, db_client, store, next_id, deleted,
                    first_created, flowVars >>

\* The ping raises (server unreachable): connect raises what it raised.
PingRaises ==
    /\ connecting
    /\ connecting' = FALSE
    /\ db_calls' = Append(db_calls, [op |-> "ping", ok |-> FALSE])
    /\ UNCHANGED << clock, min_tick, settings, http_client, clients, closing,
                    client_calls, db_client, store, next_id, deleted,
                    first_created, flowVars >>

\* db.disconnect(): no await in it.
Disconnect ==
    /\ Len(db_calls) < MaxDbCalls
    /\ db_client' = IF db_client # None THEN None ELSE db_client
    /\ db_calls' = Append(db_calls, [op |-> "disconnect"])
    /\ UNCHANGED << clock, min_tick, settings, http_client, clients, closing,
                    client_calls, connecting, store, next_id, deleted,
                    first_created, flowVars >>

\* db.get_collection(name), as MetadataRepository.from_db(db) calls it.
GetCollection(name) ==
    /\ Len(db_calls) < MaxDbCalls
    /\ db_calls' = Append(db_calls, [op |-> "get_collection",
                                     result |-> get_collection(db_client, name)])
    /\ UNCHANGED << clock, min_tick, settings, http_client, clients, closing,
                    client_calls, db_client, connecting, store, next_id,
                    deleted, first_created, flowVars >>

\* ------------------------------------------------------ the specifications

Fetching(p) ==
    \/ \E got \in GetOutcomes : FetchSleeps(p, got)
    \/ Wake(p)
    \/ \E got \in GetOutcomes : FetchFails(p, got)
    \/ \E got \in GetOutcomes : FetchSucceeds(p, got)

Upserting(p) ==
    \/ UpsertUpdates(p)
    \/ UpsertFindsNone(p)
    \/ UpsertInserts(p)
    \/ UpsertDuplicateKey(p)
    \/ RetryUpdates(p)

\* Concurrent requests, one per flow, against a store that may fail; nothing
\* else writes to the collection.
Next ==
    \E p \in Flows :
        \/ \E e \in EntryPoints, u \in Urls : Call(p, e, u)
        \/ Fetching(p)
        \/ Upserting(p)
        \/ StoreError(p)
        \/ RetryStoreError(p)

Spec == Init /\ [][Next]_vars

\* The same with a fine clock: no two reads give the same time.
SpecFine == InitFine /\ [][Next]_vars

\* One fetch_metadata call on its own, up to the moment it returns or raises.
NextFetch ==
    \/ \E e \in EntryPoints, u \in Urls : Call(1, e, u)
    \/ Fetching(1)

SpecFetch == InitFetch /\ [][NextFetch]_vars

\* The same, each client.get and each backoff sleep coming to an end: the
\* event loop resumes a coroutine whose awaited operation has completed.
SpecFetchLive == SpecFetch /\ WF_vars(Fetching(1))

\* Concurrent requests against a store that answers every operation, while
\* documents may vanish from outside.
NextRace ==
    \/ \E p \in Flows :
          \/ \E e \in EntryPoints, u \in Urls : Call(p, e, u)
          \/ Fetching(p)
          \/ Upserting(p)
          \/ RetryFindsNone(p)
    \/ \E d \in store : ExternalDelete(d)

SpecRace == Init /\ [][NextRace]_vars

\* One fetch_metadata call with a budget of MaxBackoffRetries.
SpecBackoff == InitBackoff /\ [][NextFetch]_vars

\* fetch_metadata calls, one per flow, while the configured budget changes.
NextConfig ==
    \/ \E p \in Flows :
          \/ \E e \in EntryPoints, u \in Urls : Call(p, e, u)
          \/ Fetching(p)
    \/ \E r \in 0..MaxBudget : SetBudget(r)

SpecConfig == Init /\ [][NextConfig]_vars

\* Concurrent HTTP requests, one per flow, served by the routes.
NextRoutes ==
    \E p \in Flows :
        \/ \E raw \in RawUrls : PostRequest(p, raw)
        \/ \E raw \in RawUrls : GetRequest(p, raw)
        \/ GetFinds(p)
        \/ GetStoreError(p)
        \/ RunBackgroundTask(p)
        \/ Fetching(p)
        \/ Upserting(p)
        \/ StoreError(p)
        \/ RetryStoreError(p)

SpecRoutes == InitRoutes /\ [][NextRoutes]_vars

\* The same against a store whose operations may also fail after they were
\* applied.
NextLossy ==
    \/ NextRoutes
    \/ \E p \in Flows : StoreErrorAfterWrite(p)

SpecLossy == InitRoutes /\ [][NextLossy]_vars

\* GET requests only, against the same store: every record comes from a
\* background_collect.
NextCollect ==
    \E p \in Flows :
        \/ \E raw \in RawUrls : GetRequest(p, raw)
        \/ GetFinds(p)
        \/ GetStoreError(p)
        \/ RunBackgroundTask(p)
        \/ Fetching(p)
        \/ Upserting(p)
        \/ StoreError(p)
        \/ RetryStoreError(p)
        \/ StoreErrorAfterWrite(p)

\* What a flow does once its GET is answered 202: the task runner runs the
\* task, and every operation it awaits comes to an end (client.get has a
\* timeout, a sleep ends, a store operation returns or raises).
Collecting(p) ==
    \/ RunBackgroundTask(p)
    \/ Fetching(p)
    \/ Upserting(p)
    \/ StoreError(p)
    \/ RetryStoreError(p)
    \/ StoreErrorAfterWrite(p)

SpecCollect ==
    /\ InitRoutes /\ [][NextCollect]_vars
    /\ \A p \in Flows : WF_vars(Collecting(p))

\* One fetch_metadata call with two retries allowed, while close_http_client
\* is called (by lifespan at shutdown) whenever the event loop gets to it.
InitClient == InitWith({2}, 0)

NextClient ==
    \/ NextFetch
    \/ CloseHttpClient
    \/ CloseResumes

SpecClient == InitClient /\ [][NextClient]_vars

\* The calls on the DatabaseManager, in any order, from its construction on.
InitDatabase == InitState({1}, 0) /\ Constructed

NextDatabase ==
    \/ Connect
    \/ PingReturns
    \/ PingRaises
    \/ Disconnect
    \/ GetCollection("metadata")

SpecDatabase == InitDatabase /\ [][NextDatabase]_vars

\* ================================================================ claims

Transient == {"TimeoutException", "ConnectError"}
Permanent == {"InvalidURL", "RequestError"}

\* The last client.get of flow p raised an error of the set kinds.
LastGetRaised(p, kinds) ==
    /\ last_get[p] # None
    /\ last_get[p].kind = "error"
    /\ last_get[p].error \in kinds

\* Flow p's upsert went through the duplicate-key fallback.
FellBack(p) == store_ops[p] = << "upsert", "update" >>

\* C1: in every reachable state, whatever the interleaving of the upserts
\* (first operation and duplicate-key fallback alike), the collection holds
\* at most one document per url.
C1_OneRecordPerUrl ==
    \A u \in Urls : Cardinality(Matching(store, u)) <= 1

\* Two upserts of the same url have ended, one of them through the fallback,
\* and the url has its one document.
C1_Witness ==
    \E p, q \in Flows :
        /\ p # q
        /\ url[p] = url[q]
        /\ upserted[p].tag = "return" /\ upserted[q].tag = "return"
        /\ FellBack(q)
        /\ Cardinality(Matching(store, url[p])) = 1

\* C2: a document's created_at is the one the url's first insert wrote: no
\* later upsert, by the first operation or by the fallback update, changes it.
C2_CreatedAtKept ==
    \A d \in store : first_created[d.url] = d.created_at

\* An upsert through the fallback has updated a document whose created_at
\* differs from its own candidate's, and the document kept its own.
C2_Witness ==
    \E p \in Flows :
        /\ FellBack(p)
        /\ upserted[p].tag = "return"
        /\ upserted[p].value.created_at # document[p].created_at
        /\ \E d \in store :
              /\ FromStore(d) = upserted[p].value
              /\ d.created_at = first_created[d.url]

\* C3: each write of an upsert leaves the document with an updated_at
\* strictly greater than the one it had before the write.
C3_UpdatedAtIncreases ==
    [][ \A p \in Flows :
          (upserted[p].tag = "pending" /\ upserted'[p].tag = "return")
          => \A d \in Matching(store, document[p].url) :
                upserted'[p].value.updated_at > d.updated_at ]_vars

\* C4: every document of the collection has updated_at >= created_at.
C4_UpdatedNotBeforeCreated ==
    \A d \in store : d.updated_at >= d.created_at

\* C5: with a store that answers every operation, an upsert that has ended
\* returned a document of its url, unless its fallback update found no
\* document, and then it raised the RuntimeError of the unresolved race; when
\* nothing was deleted, the upserts of a url that have ended all returned and
\* the url has exactly one document.
C5_RaceResolution ==
    \A p \in Flows :
        upserted[p].tag # "pending" =>
            /\ \/ /\ upserted[p].tag = "return"
                  /\ upserted[p].value.url = url[p]
               \/ /\ upserted[p] =
                        Raise(RuntimeError("Upsert race condition unresolved"))
                  /\ FellBack(p)
                  /\ deleted > 0
            /\ deleted = 0 =>
                  /\ upserted[p].tag = "return"
                  /\ Cardinality(Matching(store, url[p])) = 1

\* Two upserts of one new url raced, the loser of the insert fell back to the
\* update, both returned and the url has one document.
C5_Witness ==
    \E p, q \in Flows :
        /\ p # q
        /\ url[p] = url[q]
        /\ deleted = 0
        /\ store_ops[p] = << "upsert" >> /\ FellBack(q)
        /\ upserted[p].tag = "return" /\ upserted[q].tag = "return"
        /\ upserted[p].value.created_at = upserted[q].value.created_at
        /\ Cardinality(Matching(store, url[p])) = 1

\* C6: with budget R, a fetch_metadata whose attempts all fail transiently
\* goes on until attempt R + 1, sleeps R times, and then raises a FetchError
\* that names the url, the count R + 1 and the last failure.
C6_RetryBound ==
    \A p \in Flows :
        LastGetRaised(p, Transient) =>
            /\ attempt_number[p] <= settings.http_max_retries + 1
            /\ pc[p] \in {"sleep", "get", "done"}
            /\ pc[p] = "done" =>
                  /\ attempt_number[p] = settings.http_max_retries + 1
                  /\ Len(sleeps[p]) = settings.http_max_retries
                  /\ fetched[p] =
                        Raise(FetchError([text |-> "Failed to fetch",
                                          url |-> url[p],
                                          attempts |-> attempt_number[p],
                                          cause |-> last_get[p].error]))

\* Budget 3: the fourth attempt has failed transiently and FetchError is out.
C6_Witness ==
    \E p \in Flows :
        /\ settings.http_max_retries = 3
        /\ LastGetRaised(p, Transient)
        /\ attempt_number[p] = 4
        /\ fetched[p].tag = "raise"

\* C7: the attempt that fails for good is the last one: fetch_metadata raises
\* FetchError at once, with no backoff wait after that attempt (the waits
\* are those of the transient failures before it), whatever the budget.
C7_PermanentNotRetried ==
    \A p \in Flows :
        LastGetRaised(p, Permanent) =>
            /\ pc[p] = "done"
            /\ fetched[p].tag = "raise"
            /\ fetched[p].exc.type = "FetchError"
            /\ fetched[p].exc.msg.cause = last_get[p].error
            /\ Len(sleeps[p]) = attempt_number[p] - 1

\* Budget 3 and a malformed url: one attempt, no wait, FetchError.
C7_Witness ==
    \E p \in Flows :
        /\ settings.http_max_retries = 3
        /\ LastGetRaised(p, {"InvalidURL"})
        /\ attempt_number[p] = 1
        /\ sleeps[p] = << >>
        /\ stored[p].tag = "raise"

\* C8: fetch_metadata never raises a timeout or a connect failure (nor
\* tenacity's RetryError): what it raises is a FetchError, and when the last
\* failure was transient the budget was used up.
C8_TransientNeverEscapes ==
    \A p \in Flows :
        fetched[p].tag = "raise" =>
            /\ fetched[p].exc.type = "FetchError"
            /\ stored[p] = fetched[p]
            /\ LastGetRaised(p, Transient) =>
                  /\ stop(attempt_number[p], settings)
                  /\ fetched[p].exc.msg.text = "Failed to fetch"

\* After a timeout and then a connect failure the budget is used up and the
\* caller holds a FetchError.
C8_Witness ==
    \E p \in Flows :
        /\ LastGetRaised(p, {"ConnectError"})
        /\ attempt_number[p] >= 2
        /\ fetched[p].tag = "raise"
        /\ fetched[p].exc.type = "FetchError"

\* C9: background_collect returns None however store_metadata ended:
\* returning, or raising FetchError, RuntimeError or anything else.
C9_BackgroundNeverRaises ==
    \A p \in Flows :
        (entry[p] = "background_collect" /\ pc[p] = "done") =>
            /\ stored[p].tag \in {"return", "raise"}
            /\ outcome[p] = Return(None)

\* store_metadata raised a RuntimeError inside background_collect, which
\* returned.
C9_Witness ==
    \E p \in Flows :
        /\ entry[p] = "background_collect"
        /\ stored[p].tag = "raise"
        /\ stored[p].exc.type = "RuntimeError"
        /\ outcome[p].tag = "return"

\* C10: store_metadata calls fetch_metadata(url) once; if that raises, it
\* raises the same and calls nothing else; otherwise it calls upsert once,
\* with the candidate fetch_metadata returned, and ends as upsert ended.
C10_StoreMetadataComposes ==
    \A p \in Flows :
        pc[p] = "done" =>
            LET fetchCall == [op |-> "fetch_metadata", arg |-> url[p]]
            IN IF fetched[p].tag = "return"
               THEN /\ calls[p] = << fetchCall,
                                     [op |-> "upsert", arg |-> fetched[p].value] >>
                    /\ upserted[p].tag \in {"return", "raise"}
                    /\ stored[p] = upserted[p]
               ELSE /\ calls[p] = << fetchCall >>
                    /\ upserted[p].tag = "pending"
                    /\ stored[p] = fetched[p]
                    /\ stored[p].tag = "raise"

\* store_metadata returned what upsert returned, which is not the candidate.
C10_Witness ==
    \E p \in Flows :
        /\ entry[p] = "store_metadata"
        /\ pc[p] = "done"
        /\ stored[p].tag = "return"
        /\ stored[p] = upserted[p]
        /\ stored[p].value # fetched[p].value

\* C11: a step changes the store only when it is a step of an upsert, in a
\* flow whose fetch_metadata returned a candidate for the flow's url; a flow
\* still fetching, or whose fetch failed, changes nothing; and the step of an
\* upsert for url u neither adds, removes nor changes a document of another
\* url.
C11_StoreFrame ==
    [][ /\ store' # store =>
              \E w \in Flows :
                  /\ pc[w] \in {"find_one_and_update", "insert", "retry_update"}
                  /\ pc'[w] = "done"
        /\ \A p \in Flows :
              pc'[p] # pc[p] =>
                 /\ ( \/ pc[p] \in {"idle", "get", "sleep"}
                      \/ fetched'[p].tag # "return" ) => store' = store
                 /\ store' # store =>
                       /\ fetched[p].tag = "return"
                       /\ fetched[p].value.url = url[p]
                       /\ document[p] = fetched[p].value
                       /\ \A d \in store \cup store' :
                             d.url # url[p] => (d \in store /\ d \in store') ]_vars

\* One flow's fetch failed with the other flow's document in the store, and
\* (in another run) two upserts of different urls left a document each.
C11_Witness ==
    \E p, q \in Flows :
        /\ p # q
        /\ url[p] # url[q]
        /\ upserted[q].tag = "return"
        /\ \E d \in store : FromStore(d) = upserted[q].value
        /\ \/ /\ fetched[p].tag = "raise"
              /\ pc[p] = "done"
              /\ Cardinality(store) = 1
           \/ /\ upserted[p].tag = "return"
              /\ Cardinality(store) = 2

\* C12: an upsert that a storage error ended (in the first operation or in
\* the fallback update after a duplicate key) raised a RuntimeError, and has
\* awaited no store operation since.
C12_StorageErrorsWrapped ==
    \A p \in Flows :
        upserted[p].tag = "raise" =>
            /\ upserted[p].exc.type = "RuntimeError"
            /\ pc[p] = "done"

\* C13: the time upsert writes is the one it read itself when it was called;
\* and when upsert returns, what it returns is the url's document as the
\* store holds it right after the write (without _id): updated_at is this
\* call's time, created_at is the one the document had before the write, or
\* the candidate's if this call inserted it, and every other field is the
\* candidate's.
C13_ReturnsStoredRecord ==
    [][ \A p \in Flows :
          /\ (pc[p] = "get" /\ pc'[p] = "find_one_and_update") =>
                payload'[p].updated_at = clock'
          /\ (upserted[p].tag = "pending" /\ upserted'[p].tag = "return") =>
                LET r == upserted'[p].value
                    before == Matching(store, document[p].url)
                IN /\ DOMAIN r = DOMAIN document[p]
                   /\ \E d \in store' : FromStore(d) = r
                   /\ r.updated_at = payload[p].updated_at
                   /\ before = {} => r.created_at = document[p].created_at
                   /\ \A d \in before : r.created_at = d.created_at
                   /\ \A f \in (DOMAIN r) \ {"created_at", "updated_at"} :
                         r[f] = document[p][f] ]_vars

\* An upsert updated another call's document and returned it: neither
\* timestamp of the returned record is the candidate's, the body is.
C13_Witness ==
    \E p \in Flows :
        /\ upserted[p].tag = "return"
        /\ upserted[p].value.updated_at # document[p].updated_at
        /\ upserted[p].value.created_at # document[p].created_at
        /\ upserted[p].value.page_source = document[p].page_source
        /\ \E d \in store : FromStore(d) = upserted[p].value

\* The fields of the record a GET returns.
ProjectedFields ==
    {"url", "status_code", "headers", "cookies", "created_at", "updated_at"}

\* Flow p serves a request of the method, and has answered it.
Answered(p, method) ==
    /\ request[p] # None
    /\ request[p].method = method
    /\ response[p] # Pending

\* C14: when a GET is answered 200, the content is the url's stored document
\* cut down to url, status_code, headers, cookies, created_at and updated_at,
\* each with the stored value, and the stored document has the body; and no
\* response of any route carries a page_source.
C14_ProjectionExcludesBody ==
    [][ \A p \in Flows :
          /\ ( /\ response[p] = Pending
               /\ response'[p] # Pending
               /\ request'[p].method = "GET"
               /\ response'[p].status_code = 200 ) =>
                \E d \in store :
                    /\ d \in store'
                    /\ d.url = url[p]
                    /\ "page_source" \in DOMAIN d
                    /\ DOMAIN response'[p].content = ProjectedFields
                    /\ \A f \in ProjectedFields : response'[p].content[f] = d[f]
          /\ response'[p] # Pending =>
                "page_source" \notin DOMAIN response'[p].content ]_vars

\* A GET answered 200 with the record of a document whose body is stored.
C14_Witness ==
    \E p \in Flows :
        /\ Answered(p, "GET")
        /\ response[p].status_code = 200
        /\ response[p].content.status_code = 404
        /\ \E d \in store :
              /\ d.page_source = "t404"
              /\ response[p].content.url = d.url

\* C15: when the lookup of a GET for a valid url returns, a url without a
\* document is answered 202 with exactly one task added,
\* background_collect(normalised url), which has not started; a url with a
\* document is answered 200 with that document's record and no task added.
\* An answer given stays as it is, and the task, once it runs, is one
\* background_collect call for that url.
C15_GetMissSchedules ==
    [][ \A p \in Flows :
          /\ (found[p] = Pending /\ found'[p].tag = "return") =>
                LET u == HttpUrl(request[p].url)
                    docs == Matching(store, u)
                    task == [func |-> "background_collect", arg |-> u]
                IN /\ ~ValidationError(request[p].url)
                   /\ docs = {} =>
                         /\ response'[p].status_code = 202
                         /\ background_tasks'[p] = << task >>
                         /\ pc'[p] = "scheduled"
                         /\ calls'[p] = << >> /\ outcome'[p] = Pending
                   /\ docs # {} =>
                         /\ response'[p].status_code = 200
                         /\ \E d \in docs :
                               response'[p].content = MetadataResponse(FromStore(d))
                         /\ background_tasks'[p] = << >>
                         /\ pc'[p] = "responded"
          /\ response[p] # Pending => response'[p] = response[p]
          /\ background_tasks[p] # << >> =>
                background_tasks'[p] = background_tasks[p]
          /\ (request'[p] # None /\ entry'[p] = "background_collect") =>
                /\ Len(background_tasks'[p]) = 1
                /\ response'[p].status_code = 202
                /\ url'[p] = background_tasks'[p][1].arg
                /\ calls'[p][1] = [op |-> "fetch_metadata", arg |-> url'[p]] ]_vars

\* A GET sent without the trailing slash was answered 202 and its task has
\* run to the end, while another GET found the document and was answered 200.
C15_Witness ==
    \E p, q \in Flows :
        /\ Answered(p, "GET") /\ Answered(q, "GET")
        /\ request[p].url = "https://a.example"
        /\ response[p].status_code = 202
        /\ background_tasks[p] =
              << [func |-> "background_collect", arg |-> "https://a.example/"] >>
        /\ outcome[p] = Return(None)
        /\ response[q].status_code = 200
        /\ background_tasks[q] = << >>

\* C16: the step in which service.get_metadata(url) ends changes neither the
\* store nor anything a fetch attempt would change (no client, no clock read,
\* no attempt, no call of fetch_metadata or upsert); when it returns, it
\* returns the url's document without _id, or None if the url has none.
C16_GetMetadataPureLookup ==
    [][ \A p \in Flows :
          (found[p] = Pending /\ found'[p] # Pending) =>
              /\ store' = store /\ next_id' = next_id
              /\ first_created' = first_created
              /\ http_client' = http_client /\ clock' = clock
              /\ attempt_number' = attempt_number
              /\ last_get' = last_get /\ fetched' = fetched
              /\ calls' = calls /\ calls[p] = << >>
              /\ upserted' = upserted
              /\ found'[p].tag = "return" =>
                    IF Matching(store, url[p]) = {}
                    THEN found'[p].value = None
                    ELSE \E d \in Matching(store, url[p]) :
                            /\ found'[p].value = FromStore(d)
                            /\ found'[p].value.url = url[p] ]_vars

\* Two lookups of one url, one before and one after its document was
\* stored: the first returned None, the second the document.
C16_Witness ==
    \E p, q \in Flows :
        /\ url[p] = url[q]
        /\ found[p] = Return(None)
        /\ found[q].tag = "return"
        /\ found[q].value # None
        /\ \E d \in store : FromStore(d) = found[q].value

\* C17: a POST whose url is valid is answered when store_metadata ends, and
\* by how it ended: 200 if it returned, 400 if the fetch failed (for good or
\* with the retries used up), 500 if upsert raised, whatever it raised; so a
\* 400 always comes from a FetchError and a 500 never does.
C17_PostStatus ==
    \A p \in Flows :
        (request[p] # None /\ request[p].method = "POST"
            /\ ~ValidationError(request[p].url)) =>
            /\ (response[p] # Pending) <=> (stored[p] # Pending)
            /\ response[p] # Pending =>
                  /\ response[p].status_code \in {200, 400, 500}
                  /\ (response[p].status_code = 200) <=> (stored[p].tag = "return")
                  /\ (response[p].status_code = 400) <=>
                        (fetched[p].tag = "raise" /\ stored[p].exc.type = "FetchError")
                  /\ (response[p].status_code = 500) <=> (upserted[p].tag = "raise")

\* One POST answered 400 after its retries were used up, another answered
\* 500 after its upsert raised.
C17_Witness ==
    \E p, q \in Flows :
        /\ Answered(p, "POST") /\ Answered(q, "POST")
        /\ LastGetRaised(p, Transient)
        /\ response[p].status_code = 400
        /\ upserted[q].tag = "raise"
        /\ response[q].status_code = 500

\* C18: the attempts of a fetch_metadata call are bounded by the budget read
\* when the call started, and a call whose attempts all failed transiently
\* made exactly that budget plus one, whatever was configured meanwhile.
C18_BudgetFixedAtStart ==
    \A p \in Flows :
        /\ attempt_number[p] <= budget_at_start[p] + 1
        /\ (pc[p] = "done" /\ LastGetRaised(p, Transient)) =>
              attempt_number[p] = budget_at_start[p] + 1

\* C19: every document written through the routes has a normalised url (one
\* that normalising leaves as it is); and when the lookup of a GET returns
\* after a POST stored a document, the text the GET sent and the text the
\* POST sent normalising to the same url, the GET is answered 200 with the
\* record of that url.
C19_SameNormalisedKey ==
    [][ /\ \A d \in store' :
              /\ HttpUrl(d.url) = d.url
              /\ \E raw \in RawUrls : ~ValidationError(raw) /\ d.url = HttpUrl(raw)
        /\ \A p, q \in Flows :
              ( /\ found[p] = Pending /\ found'[p].tag = "return"
                /\ request[q] # None /\ request[q].method = "POST"
                /\ upserted[q].tag = "return"
                /\ HttpUrl(request[q].url) = HttpUrl(request[p].url) ) =>
                    /\ response'[p].status_code = 200
                    /\ response'[p].content.url = HttpUrl(request[q].url)
                    /\ response'[p].content.url = upserted[q].value.url ]_vars

\* A POST sent the url without the trailing slash, a GET sent it with the
\* slash and was answered 200 with the record the POST stored.
C19_Witness ==
    \E p, q \in Flows :
        /\ Answered(q, "POST") /\ request[q].url = "https://a.example"
        /\ response[q].status_code = 200
        /\ Answered(p, "GET") /\ request[p].url = "https://a.example/"
        /\ response[p].status_code = 200
        /\ response[p].content = MetadataResponse(upserted[q].value)

\* C20: a document's created_at is the earliest created_at among the
\* candidates that upserts of its url have written so far.
C20_CreatedAtEarliestCandidate ==
    \A d \in store :
        LET written == { p \in Flows : upserted[p].tag = "return"
                                        /\ document[p].url = d.url }
        IN written # {} =>
              /\ \A p \in written : d.created_at <= document[p].created_at
              /\ \E p \in written : d.created_at = document[p].created_at

\* C21: a fetch_metadata call that has begun has made at least one and at
\* most R + 1 attempts, with one wait between two attempts; with R = 0 it
\* ends after its first attempt without a wait; and, every client.get and
\* every sleep coming to an end, the call ends: it returns a candidate or
\* raises.
C21_FetchTerminates ==
    /\ [](\A p \in Flows :
            pc[p] # "idle" =>
               /\ attempt_number[p] >= 1
               /\ attempt_number[p] <= settings.http_max_retries + 1
               /\ Len(sleeps[p]) <= settings.http_max_retries
               /\ Len(sleeps[p]) \in {attempt_number[p] - 1, attempt_number[p]}
               /\ settings.http_max_retries = 0 =>
                     /\ pc[p] # "sleep"
                     /\ attempt_number[p] = 1 /\ sleeps[p] = << >>)
    /\ \A p \in {1} : (pc[p] = "get") ~> (fetched[p].tag \in {"return", "raise"})

\* With R = 0 the one attempt timed out and the call has raised; no wait.
C21_Witness ==
    \E p \in Flows :
        /\ settings.http_max_retries = 0
        /\ LastGetRaised(p, Transient)
        /\ attempt_number[p] = 1
        /\ sleeps[p] = << >>
        /\ fetched[p].tag = "raise"

\* C22: when client.get answers at attempt k (the k - 1 attempts before it
\* having failed transiently, k <= R + 1), fetch_metadata returns the
\* candidate built by attempt k, after k - 1 waits; no attempt follows and
\* nothing is raised.
C22_SuccessAfterRetries ==
    \A p \in Flows :
        (last_get[p] # None /\ last_get[p].kind = "response") =>
            /\ attempt_number[p] <= settings.http_max_retries + 1
            /\ Len(sleeps[p]) = attempt_number[p] - 1
            /\ fetched[p] =
                  Return(MetadataDocument(url[p], last_get[p].response,
                                          fetch_now[p], fetch_now[p]))
            /\ pc[p] \notin {"get", "sleep"}
            /\ stored[p].tag # "raise"

\* With budget 3 the fourth attempt was answered, after three waits.
C22_Witness ==
    \E p \in Flows :
        /\ settings.http_max_retries = 3
        /\ last_get[p] # None /\ last_get[p].kind = "response"
        /\ attempt_number[p] = 4
        /\ Len(sleeps[p]) = 3
        /\ fetched[p].tag = "return"
        /\ fetched[p].value.created_at = fetch_now[p]

\* C23: the k-th wait of a fetch_metadata call, the one after its k-th failed
\* attempt, is min(10, 0.5 * 2^(k-1)) time units, that is min(20, 2^(k-1))
\* half units: 0.5, 1, 2, 4, 8, then 10; no wait is above 10 and no wait is
\* shorter than the one before it.
C23_BackoffSchedule ==
    \A p \in Flows :
        /\ \A k \in 1..Len(sleeps[p]) :
              /\ sleeps[p][k] = Min(20, 2 ^ (k - 1))
              /\ sleeps[p][k] <= 20
              /\ k > 1 => sleeps[p][k] >= sleeps[p][k - 1]
              /\ (k > 1 /\ sleeps[p][k] < 20) => sleeps[p][k] = 2 * sleeps[p][k - 1]
        /\ Len(sleeps[p]) >= 1 => sleeps[p][1] = 1
        /\ Len(sleeps[p]) >= 5 =>
              SubSeq(sleeps[p], 1, 5) = << 1, 2, 4, 8, 16 >>

\* Six attempts have failed: the waits were 0.5, 1, 2, 4, 8 and 10.
C23_Witness ==
    \E p \in Flows :
        /\ Len(sleeps[p]) = 6
        /\ sleeps[p][5] = 16
        /\ sleeps[p][6] = 20
        /\ attempt_number[p] >= 6

\* The fields every write of an upsert sets.
WrittenFields ==
    {"status_code", "headers", "cookies", "page_source", "updated_at"}

\* C24: the store changes only in the step that serves an upsert's write, and
\* right after that step the url's document carries that upsert's
\* status_code, headers, cookies, page_source and updated_at.  So, once the
\* upserts of a url have ended, these fields are those of the write the
\* store served last, whenever that upsert began or read its time.
C24_LastWriteWins ==
    [][ /\ store' # store =>
              \E w \in Flows : upserted[w].tag = "pending" /\ upserted'[w].tag = "return"
        /\ \A p \in Flows :
              (upserted[p].tag = "pending" /\ upserted'[p].tag = "return") =>
                  /\ Matching(store', document[p].url) # {}
                  /\ \A d \in Matching(store', document[p].url) :
                        \A f \in WrittenFields : d[f] = payload[p][f] ]_vars

\* Two upserts of one url have ended; the document carries the fields of the
\* one that read its time first, and fetched another page.
C24_Witness ==
    \E p, q \in Flows :
        /\ p # q
        /\ url[p] = url[q]
        /\ upserted[p].tag = "return" /\ upserted[q].tag = "return"
        /\ payload[p].updated_at < payload[q].updated_at
        /\ payload[p].status_code # payload[q].status_code
        /\ \E d \in store :
              /\ d.url = url[p]
              /\ \A f \in WrittenFields : d[f] = payload[p][f]

\* C25: an upsert awaits the first find_one_and_update and, only after that
\* one met a duplicate key, one more, a plain update: two operations at most.
\* The step that serves the second operation adds no document; when it finds
\* none, upsert raises the RuntimeError of the unresolved race and the url
\* still has no document.
C25_RetryNeverInserts ==
    [][ \A p \in Flows :
          /\ store_ops'[p] \in {<< >>, << "upsert" >>, << "upsert", "update" >>}
          /\ (store_ops[p] = << "upsert" >> /\ FellBack(p)') =>
                /\ pc[p] = "insert"
                /\ DuplicateKey(store, InsertedDoc(next_id, document[p], payload[p]))
                /\ store' = store
          /\ (pc[p] = "retry_update" /\ pc'[p] # "retry_update") =>
                /\ store_ops'[p] = store_ops[p]
                /\ next_id' = next_id
                /\ \A d \in store' : \E e \in store : e._id = d._id
                /\ Matching(store, document[p].url) = {} =>
                      /\ upserted'[p] =
                            Raise(RuntimeError("Upsert race condition unresolved"))
                      /\ store' = store
                      /\ Matching(store', document[p].url) = {} ]_vars

\* The fallback update found no document: the upsert raised, and the url has
\* none.
C25_Witness ==
    \E p \in Flows :
        /\ FellBack(p)
        /\ upserted[p] = Raise(RuntimeError("Upsert race condition unresolved"))
        /\ Matching(store, url[p]) = {}
        /\ deleted = 1

\* The record r is whole and its url, status_code, headers, cookies and
\* page_source are those of one candidate.
FromOneCandidate(r) ==
    /\ DOMAIN r \ {"_id"} =
          {"url", "status_code", "headers", "cookies", "page_source",
           "created_at", "updated_at"}
    /\ \E q \in Flows :
          /\ document[q] # None
          /\ \A f \in {"url", "status_code", "headers", "cookies", "page_source"} :
                r[f] = document[q][f]

\* C26: every document of the collection, and every record a lookup
\* returned, is whole and carries the status_code, headers, cookies and
\* page_source of one single candidate, also after upserts that failed,
\* before or after the store applied their write.
C26_NoMixedRecord ==
    /\ \A d \in store : FromOneCandidate(d)
    /\ \A p \in Flows :
          (found[p].tag = "return" /\ found[p].value # None) =>
              FromOneCandidate(found[p].value)
    /\ \A p \in Flows :
          upserted[p].tag = "return" => FromOneCandidate(upserted[p].value)

\* Two upserts of one url with different pages have ended, one of them
\* failing after its write: the document is the one candidate's throughout.
C26_Witness ==
    \E p, q \in Flows :
        /\ p # q
        /\ url[p] = url[q]
        /\ upserted[p].tag = "return"
        /\ upserted[q].tag = "raise"
        /\ document[p].status_code # document[q].status_code
        /\ \E d \in store :
              /\ d.url = url[p]
              /\ d.status_code = document[q].status_code
              /\ d.page_source = document[q].page_source
              /\ d.headers = document[q].headers

\* C27: the step in which client.get answers, with whatever status code, ends
\* fetch_metadata: it returns a candidate with that status code and that
\* response's headers, cookies and text; no wait and no attempt is added, and
\* store_metadata goes on to upsert that candidate.
C27_AnyStatusIsSuccess ==
    [][ \A p \in Flows, got \in GetOutcomes :
          (pc[p] = "get" /\ last_get'[p] = got /\ pc'[p] # "get"
              /\ got.kind = "response") =>
              /\ fetched'[p].tag = "return"
              /\ fetched'[p].value.status_code = got.response.status_code
              /\ fetched'[p].value.headers = got.response.headers
              /\ fetched'[p].value.cookies = got.response.cookies
              /\ fetched'[p].value.page_source = got.response.text
              /\ attempt_number'[p] = attempt_number[p]
              /\ sleeps'[p] = sleeps[p]
              /\ pc'[p] = "find_one_and_update"
              /\ payload'[p].status_code = got.response.status_code ]_vars

\* The first attempt was answered 404 and fetch_metadata returned a candidate
\* with status_code 404.
C27_Witness ==
    \E p \in Flows :
        /\ last_get[p] # None /\ last_get[p].kind = "response"
        /\ last_get[p].response.status_code = 404
        /\ attempt_number[p] = 1
        /\ fetched[p].tag = "return"
        /\ fetched[p].value.status_code = 404

\* C28: get_http_client returns an open client, which the module then refers
\* to; it returns the client the call before returned when no step of
\* close_http_client ran between the two; it constructs a client (one, open)
\* only when the module has none or a closed one, and otherwise returns the
\* module's client; close_http_client with no client or a closed one changes
\* neither the module's reference nor any client.
C28_ClientLifecycle ==
    [][ LET n == Len(client_calls)
            call == client_calls'[n + 1]
            usable == http_client # None /\ ~is_closed(http_client, clients)
        IN  Len(client_calls') = n + 1 =>
              /\ call.op = "get_http_client" =>
                   /\ ~is_closed(call.client, clients')
                   /\ http_client' = call.client
                   /\ (n > 0 /\ client_calls[n].op = "get_http_client") =>
                          call.client = client_calls[n].client
                   /\ clients' # clients =>
                          /\ ~usable
                          /\ clients' = Append(clients, FALSE)
                          /\ call.client.id = Len(clients')
                   /\ usable => (call.client = http_client /\ clients' = clients)
              /\ (call.op = "close_http_client" /\ ~usable) =>
                   UNCHANGED << http_client, clients, closing >> ]_vars

\* Two get_http_client calls in a row returned the first client; a close found
\* no client, and another found a closed one; a second client was constructed
\* after the first had been closed.
C28_Witness ==
    /\ \E i \in DOMAIN client_calls :
          /\ i + 1 \in DOMAIN client_calls
          /\ client_calls[i] = [op |-> "get_http_client", client |-> [id |-> 1]]
          /\ client_calls[i + 1] = client_calls[i]
    /\ client_calls[1].op = "close_http_client"
    /\ \E i \in DOMAIN client_calls :
          /\ i + 1 \in DOMAIN client_calls
          /\ i - 1 \in DOMAIN client_calls
          /\ client_calls[i - 1].op = "get_http_client"
          /\ client_calls[i].op = "close_http_client"
          /\ client_calls[i + 1].op = "close_http_client"
    /\ Len(clients) = 2
    /\ clients[1] /\ ~clients[2]

\* C29: every client constructed and still open is the one the module refers
\* to, also while a close_http_client awaits aclose().
C29_NoOrphanedClient ==
    \A i \in DOMAIN clients : ~clients[i] => http_client = [id |-> i]

\* The GET of flow p for url u was answered 202.
Answered202(p, u) ==
    /\ Answered(p, "GET")
    /\ response[p].status_code = 202
    /\ url[p] = u

\* The background_collect scheduled by the GET of flow p has returned.
CollectionEnded(p, u) == Answered202(p, u) /\ outcome[p] # Pending

CollectionSucceeded(p, u) ==
    /\ CollectionEnded(p, u)
    /\ fetched[p].tag = "return" /\ upserted[p].tag = "return"

CollectionFailed(p, u) == CollectionEnded(p, u) /\ ~CollectionSucceeded(p, u)

\* The GET of flow q for url u, its lookup having returned, was answered with
\* this status code.
LookedUp(q, u) ==
    /\ Answered(q, "GET") /\ url[q] = u
    /\ found[q].tag = "return"

\* C30: a GET for u answered 202 leads to the end of the background_collect it
\* scheduled.  If its fetch and its upsert succeeded, the store holds a record
\* for u from then on and every GET for u that arrives later (and whose lookup
\* returns) is answered 200.  If they failed, the store holds no record for u
\* unless another flow wrote one, and every GET for u that arrives later (and
\* whose lookup returns) is answered 202.
C30_MissThenCollected ==
    \A p \in Flows, u \in Urls :
        /\ Answered202(p, u) ~> CollectionEnded(p, u)
        /\ [](CollectionSucceeded(p, u) => Matching(store, u) # {})
        /\ []((CollectionFailed(p, u) /\ \A q \in Flows \ {p} : store_ops[q] = << >>)
                  => Matching(store, u) = {})
        /\ \A q \in Flows \ {p} :
              /\ []((CollectionSucceeded(p, u) /\ pc[q] = "idle")
                      => [](LookedUp(q, u) => response[q].status_code = 200))
              /\ []((CollectionFailed(p, u) /\ pc[q] = "idle")
                      => [](LookedUp(q, u) => response[q].status_code = 202))

\* The last connect call of the log (0: none).
LastConnect(log) ==
    IF Connects(log) = 0 THEN 0
    ELSE CHOOSE i \in DOMAIN log :
            /\ log[i].op = "connect"
            /\ \A j \in DOMAIN log : j > i => log[j].op # "connect"

\* The most recent connect completed successfully and no disconnect followed.
ConnectedNow(log) ==
    /\ LastConnect(log) > 0
    /\ \E j \in DOMAIN log :
          j > LastConnect(log) /\ log[j] = [op |-> "ping", ok |-> TRUE]
    /\ \A j \in DOMAIN log : j > LastConnect(log) => log[j].op # "disconnect"

\* No connect yet, a disconnect after the last connect, or the last connect's
\* ping failed.
NotConnectedNow(log) ==
    \/ LastConnect(log) = 0
    \/ \E j \in DOMAIN log : j > LastConnect(log) /\ log[j].op = "disconnect"
    \/ \E j \in DOMAIN log :
          j > LastConnect(log) /\ log[j] = [op |-> "ping", ok |-> FALSE]

\* C31: get_collection returns a collection only when the most recent connect
\* has completed with its ping answered and no disconnect came after it;
\* before any connect, after a disconnect and after a connect whose ping
\* failed it raises RuntimeError; a disconnect with no client changes nothing.
C31_CollectionOnlyWhenConnected ==
    [][ LET n == Len(db_calls)
            call == db_calls'[n + 1]
        IN  Len(db_calls') = n + 1 =>
              /\ call.op = "get_collection" =>
                   /\ call.result.tag = "return" => ConnectedNow(db_calls)
                   /\ NotConnectedNow(db_calls) =>
                         /\ call.result.tag = "raise"
                         /\ call.result.exc.type = "RuntimeError"
              /\ (call.op = "disconnect" /\ db_client = None) =>
                   UNCHANGED << db_client, connecting >> ]_vars

====
